---------------------------- MODULE Spec2Model ----------------------------
(***************************************************************************)
(* A model of ESGSearcher (src/searcher_prototype.py) and of the driver    *)
(* main() (src/main.py): one search, then a sequential loop that fetches,  *)
(* parses, validates and merges every hit.                                 *)
(*                                                                         *)
(* Representation.                                                         *)
(*  - A Python str is a sequence of tokens.  A token is a TLA+ string that  *)
(*    stands for a run of characters matched as a unit by the two regular  *)
(*    expressions: a phrase, one digit, a comma, one space, a unit, or some *)
(*    other text.  A str stored in a dict is tagged PyStr, a list PyList,   *)
(*    None is PyNone.                                                       *)
(*  - A dict is a function from its keys to values.  Dicts that the code    *)
(*    mutates live in `heap`, and the program variables hold references.    *)
(*  - A URL is the sequence of its "/"-separated pieces, what               *)
(*    url.split('/') returns.                                               *)
(***************************************************************************)
EXTENDS Integers, Sequences, FiniteSets, TLC

(***************************************************************************)
(* Bounds of the model.                                                    *)
(***************************************************************************)
MaxItems == 2        \* items in one provider response
MaxLimit == 2        \* largest num_results a caller passes
MaxTextLen == 5      \* tokens in an enumerated payload

(***************************************************************************)
(* Python values.                                                          *)
(***************************************************************************)
PyNone == [t |-> "none"]
PyStr(s) == [t |-> "str", v |-> s]
PyList(s) == [t |-> "list", v |-> s]

EmptyDict == <<>>
DictSet(d, k, v) == [x \in (DOMAIN d) \cup {k} |-> IF x = k THEN v ELSE d[x]]
DictGet(d, k, default) == IF k \in DOMAIN d THEN d[k] ELSE default
DictUpdate(d, e) ==
    [x \in (DOMAIN d) \cup (DOMAIN e) |-> IF x \in DOMAIN e THEN e[x] ELSE d[x]]

(***************************************************************************)
(* Tokens and the two patterns of parse_esg_data.                          *)
(***************************************************************************)
Digits == {"0", "1", "2", "3", "4", "5"}
Comma == ","
Space == " "

\* str.lower() on a token; re.IGNORECASE compares both sides folded.
Lower(tok) ==
    CASE tok = "Carbon Emissions" -> "carbon emissions"
      [] tok = "CARBON EMISSIONS" -> "carbon emissions"
      [] tok = "MT" -> "mt"
      [] tok = "Metric Tons" -> "metric tons"
      [] tok = "tCO2e" -> "tco2e"
      [] tok = "TCO2E" -> "tco2e"
      [] tok = "Net-Zero by " -> "net-zero by "
      [] tok = "NET-ZERO BY " -> "net-zero by "
      [] OTHER -> tok

\* The literals of carbon_pattern and net_zero_pattern.
CarbonPhrase == "carbon emissions"
UnitTokens == {"metric tons", "MT", "tCO2e"}
NetZeroPhrase == "net-zero by "
YearLen == 4

MatchesLiteralExact(tok, lit) == tok = lit

\* flags=re.IGNORECASE: a text token matches a literal when both fold alike.
MatchesLiteral(tok, lit) == Lower(tok) = Lower(lit)
MatchesUnit(tok) == \E u \in UnitTokens : MatchesLiteral(tok, u)

\* [^0-9] consumes a token only if none of its characters is a digit.
HasDigit(tok) == tok \in Digits \/ Lower(tok) = "tco2e"
IsFillerTok(tok) == ~HasDigit(tok)
\* [0-9,] consumes a digit or a comma.
IsNumberTok(tok) == tok \in Digits \/ tok = Comma

\* The longest run of tokens satisfying a class, starting at position s.
RECURSIVE RunLen(_, _, _)
RunLen(text, s, isNum) ==
    IF s > Len(text) THEN 0
    ELSE IF (IF isNum THEN IsNumberTok(text[s]) ELSE IsFillerTok(text[s]))
         THEN 1 + RunLen(text, s + 1, isNum)
         ELSE 0

NoMatch == [found |-> FALSE]

\* " (metric tons|MT|tCO2e)" after a number that ends at position e.
TailAt(text, e) ==
    /\ e + 2 <= Len(text)
    /\ text[e + 1] = Space
    /\ MatchesUnit(text[e + 2])

\* ([0-9,]+) is greedy: the longest number first, then shorter ones, and
\* the first length after which the rest of the pattern matches wins.
RECURSIVE TryNumber(_, _, _)
TryNumber(text, s, n) ==
    IF n < 1 THEN NoMatch
    ELSE IF TailAt(text, s + n - 1)
         THEN [found |-> TRUE,
               g1 |-> SubSeq(text, s, s + n - 1),
               g2 |-> text[s + n + 1]]
         ELSE TryNumber(text, s, n - 1)

\* (?:[^0-9]*) is greedy too: the longest filler first, then shorter ones.
RECURSIVE TryFiller(_, _, _)
TryFiller(text, s, f) ==
    IF f < 0 THEN NoMatch
    ELSE LET m == TryNumber(text, s + f, RunLen(text, s + f, TRUE))
         IN  IF m.found THEN m ELSE TryFiller(text, s, f - 1)

\* carbon_pattern anchored at position i.
CarbonMatchAt(text, i) ==
    IF MatchesLiteral(text[i], CarbonPhrase)
    THEN TryFiller(text, i + 1, RunLen(text, i + 1, FALSE))
    ELSE NoMatch

\* re.search tries the start positions from left to right.
RECURSIVE CarbonSearchFrom(_, _)
CarbonSearchFrom(text, i) ==
    IF i > Len(text) THEN NoMatch
    ELSE LET m == CarbonMatchAt(text, i)
         IN  IF m.found THEN m ELSE CarbonSearchFrom(text, i + 1)

CarbonSearch(text) == CarbonSearchFrom(text, 1)

\* net_zero_pattern anchored at position i: the phrase, then \d{4}.
NetZeroMatchAt(text, i) ==
    IF /\ MatchesLiteral(text[i], NetZeroPhrase)
       /\ i + YearLen <= Len(text)
       /\ \A k \in 1..YearLen : text[i + k] \in Digits
    THEN [found |-> TRUE, g1 |-> SubSeq(text, i + 1, i + YearLen)]
    ELSE NoMatch

RECURSIVE NetZeroSearchFrom(_, _)
NetZeroSearchFrom(text, i) ==
    IF i > Len(text) THEN NoMatch
    ELSE LET m == NetZeroMatchAt(text, i)
         IN  IF m.found THEN m ELSE NetZeroSearchFrom(text, i + 1)

NetZeroSearch(text) == NetZeroSearchFrom(text, 1)

\* f"{carbon_match.group(1)} {carbon_match.group(2)}"
FormatCarbon(m) == PyStr(m.g1 \o <<Space>> \o <<m.g2>>)

PdfNote == PyStr(<<"PDF parsing not implemented yet">>)

parse_esg_data_scan_pdf(content) ==
    LET text == content.content
        carbon_match == CarbonSearch(text)
        d0 == IF content.type = "pdf"
              THEN DictSet(EmptyDict, "note", PdfNote) ELSE EmptyDict
    IN  IF carbon_match.found
        THEN DictSet(d0, "carbon_emissions", FormatCarbon(carbon_match))
        ELSE d0

\* parse_esg_data: the dict it builds and returns.
parse_esg_data(content) ==
    IF content.type = "html"
    THEN LET text == content.content
             carbon_match == CarbonSearch(text)
             net_zero_match == NetZeroSearch(text)
             d1 == IF carbon_match.found
                   THEN DictSet(EmptyDict, "carbon_emissions", FormatCarbon(carbon_match))
                   ELSE EmptyDict
         IN  IF net_zero_match.found
             THEN DictSet(d1, "net_zero_target", PyStr(net_zero_match.g1))
             ELSE d1
    ELSE IF content.type = "pdf"
         THEN DictSet(EmptyDict, "note", PdfNote)
         ELSE EmptyDict

MissingCarbon == PyStr(<<"Missing carbon emissions data">>)
MissingNetZero == PyStr(<<"Missing net-zero target">>)

AppendErrorOverwrite(d, msg) == DictSet(d, "error", PyList(<<msg>>))

\* data.get("error", []) + [msg], stored under "error".
AppendError(d, msg) ==
    DictSet(d, "error", PyList(DictGet(d, "error", PyList(<<>>)).v \o <<msg>>))

validate_data_copy(h, ref) ==
    LET d0 == h[ref]
        d1 == IF "carbon_emissions" \notin DOMAIN d0
              THEN AppendError(d0, MissingCarbon) ELSE d0
        d2 == IF "net_zero_target" \notin DOMAIN d1
              THEN AppendError(d1, MissingNetZero) ELSE d1
    IN  [heap |-> Append(h, d2), ret |-> Len(h) + 1]

\* validate_data mutates the dict behind `ref` and returns the same reference.
validate_data(h, ref) ==
    LET d0 == h[ref]
        d1 == IF "carbon_emissions" \notin DOMAIN d0
              THEN AppendError(d0, MissingCarbon) ELSE d0
        d2 == IF "net_zero_target" \notin DOMAIN d1
              THEN AppendError(d1, MissingNetZero) ELSE d1
    IN  [heap |-> [h EXCEPT ![ref] = d2], ret |-> ref]

(***************************************************************************)
(* The environment: what the search provider and the web servers answer.   *)
(***************************************************************************)
UrlA == PyStr(<<"https:", "", "a.com", "r.pdf">>)
UrlB == PyStr(<<"https:", "", "b.com", "r.pdf">>)   \* same last piece as UrlA
UrlC == PyStr(<<"https:", "", "a.com", "docs", "">>) \* ends with "/"

ItemA == [title |-> PyStr(<<"A">>), link |-> UrlA, snippet |-> PyStr(<<"sa">>)]
ItemB == [title |-> PyStr(<<"B">>), link |-> UrlB]
ItemC == [link |-> UrlC, snippet |-> PyStr(<<"sc">>), kind |-> PyStr(<<"k">>)]
ItemN == [title |-> PyStr(<<"N">>), snippet |-> PyStr(<<"sn">>)]
BadItem == PyNone   \* an entry of "items" that is no dict
RawItems == {ItemA, ItemB, ItemC, ItemN, BadItem}

SeqsUpTo(S, n) == UNION {[1..k -> S] : k \in 0..n}

\* What .execute() does: it raises, or it returns a response dict.
ProviderOutcomes ==
    {[raised |-> TRUE]}
      \cup {[raised |-> FALSE, response |-> EmptyDict]}
      \cup {[raised |-> FALSE, response |-> [items |-> its]] :
               its \in SeqsUpTo(RawItems, MaxItems)}

BodyBoth == << <<"Carbon Emissions", " were ", "1", ",", "2", " ", "mt">>,
               <<"net-zero by ", "2", "0", "4", "5">> >>
BodyNone == << <<"carbon emissions", " fell">> >>
Bodies == {BodyBoth, BodyNone}

PdfToken == "application/pdf"
HeaderSets ==
    { EmptyDict,
      "Content-Type" :> PyStr(<<"text/html">>),
      "Content-Type" :> PyStr(<<PdfToken, "; charset=binary">>),
      "Content-Type" :> PyStr(<<"Application/PDF">>) }

\* What requests.get(url) does for a url it accepts: it raises (no
\* connection), or it returns the final response: a success, a client
\* error, or a 3xx that redirects nowhere (304 Not Modified).
WebOutcomes ==
    {[raised |-> TRUE]}
      \cup {[raised |-> FALSE, status_code |-> 404,
             headers |-> ("Content-Type" :> PyStr(<<PdfToken>>)), body |-> BodyNone]}
      \cup {[raised |-> FALSE, status_code |-> 304,
             headers |-> ("Content-Type" :> PyStr(<<"text/html">>)), body |-> <<>>]}
      \cup {[raised |-> FALSE, status_code |-> 200, headers |-> hd, body |-> b] :
               hd \in HeaderSets, b \in Bodies}

(***************************************************************************)
(* search_reports.                                                         *)
(***************************************************************************)
\* {"title": item.get("title"), "link": ..., "snippet": ...}
MapItem(item) ==
    [title |-> DictGet(item, "title", PyNone),
     link |-> DictGet(item, "link", PyNone),
     snippet |-> DictGet(item, "snippet", PyNone)]

\* The for loop inside the try: item.get on an entry that is no dict
\* raises, the except clause prints, and what was appended so far stays.
RECURSIVE AppendItems(_, _, _)
AppendItems(items, k, results) ==
    IF k > Len(items) THEN results
    ELSE IF items[k] = BadItem THEN results
         ELSE AppendItems(items, k + 1, Append(results, MapItem(items[k])))

\* num_results is passed to the provider as num= and used nowhere else.
search_reports_notry(num_results, outcome) ==
    IF outcome.raised THEN [exc |-> TRUE, ret |-> <<>>]
    ELSE [exc |-> FALSE,
          ret |-> AppendItems(DictGet(outcome.response, "items", <<>>), 1, <<>>)]

\* `exc` says whether an exception leaves the method: the try covers the
\* provider call and the loop, and `except Exception` lets nothing out.
search_reports(num_results, outcome) ==
    IF outcome.raised THEN [exc |-> FALSE, ret |-> <<>>]
    ELSE [exc |-> FALSE,
          ret |-> AppendItems(DictGet(outcome.response, "items", <<>>), 1, <<>>)]

(***************************************************************************)
(* fetch_content.                                                          *)
(***************************************************************************)
\* response.raise_for_status() raises for 4xx and 5xx.
RaisesForStatus(status_code) == status_code >= 400 /\ status_code < 600

\* "application/pdf" in response.headers.get("Content-Type", "")
IsPdfResponseExact(resp) ==
    DictGet(resp.headers, "Content-Type", PyStr(<<>>)).v = <<PdfToken>>

IsPdfResponse(resp) ==
    LET ctype == DictGet(resp.headers, "Content-Type", PyStr(<<>>)).v
    IN  \E k \in DOMAIN ctype : ctype[k] = PdfToken

PdfNameWholeUrl(url) == PyStr(<<"downloads">> \o url.v)

\* f"downloads/{url.split('/')[-1]}"
PdfName(url) == PyStr(<<"downloads", url.v[Len(url.v)]>>)

\* " ".join([p.get_text() for p in soup.find_all("p")])
RECURSIVE JoinSpace(_)
JoinSpace(paras) ==
    IF paras = <<>> THEN <<>>
    ELSE IF Len(paras) = 1 THEN paras[1]
         ELSE paras[1] \o <<Space>> \o JoinSpace(Tail(paras))

\* open(pdf_name, "wb") raises when the name ends with "/": it names the
\* directory itself.
OpenRaises(pdf_name) == pdf_name.v[Len(pdf_name.v)] = ""

\* fetch_content against the file system `f` ([dirs, files]) with the
\* server answering `resp`: the value returned and the file system left.
fetch_content(url, resp, f) ==
    IF url = PyNone \/ resp.raised
    THEN [ret |-> PyNone, fs |-> f]
    ELSE IF RaisesForStatus(resp.status_code)
    THEN [ret |-> PyNone, fs |-> f]
    ELSE IF IsPdfResponse(resp)
    THEN LET made == [f EXCEPT !.dirs = @ \cup {"downloads"}]
             pdf_name == PdfName(url)
         IN  IF OpenRaises(pdf_name)
             THEN [ret |-> PyNone, fs |-> made]
             ELSE [ret |-> [type |-> "pdf", content |-> pdf_name],
                   fs |-> [made EXCEPT !.files = DictSet(@, pdf_name, resp.body)]]
    ELSE [ret |-> [type |-> "html", content |-> JoinSpace(resp.body)], fs |-> f]

\* `if content:` - None and the empty dict are false.
Truthy(content) == content # PyNone /\ DOMAIN content # {}

(***************************************************************************)
(* State.                                                                  *)
(***************************************************************************)
VARIABLES
    pc,             \* where main() and process_search_results stand
    call,           \* history: the search_reports call made, or PyNone
    results,        \* search_results / the argument of process_search_results
    idx,            \* position of `result` in results
    content,        \* locals of the loop body
    parsed_data,    \*   (references into heap)
    validated_data,
    heap,           \* the dicts made by parse_esg_data
    processed_data, \* list of references
    fs,             \* the local file system: directories and files
    fetched,        \* history: per hit handled, the answer and the result
    log             \* history: the steps taken, <<step, idx>>

vars == <<pc, call, results, idx, content, parsed_data, validated_data, heap,
          processed_data, fs, fetched, log>>

EmptyFs == [dirs |-> {}, files |-> EmptyDict]

Init ==
    /\ pc = "search"
    /\ call = PyNone
    /\ results = <<>>
    /\ idx = 0
    /\ content = PyNone
    /\ parsed_data = 0
    /\ validated_data = 0
    /\ heap = <<>>
    /\ processed_data = <<>>
    /\ fs = EmptyFs
    /\ fetched = <<>>
    /\ log = <<>>

\* main: search_results = searcher.search_reports(query)
Search ==
    /\ pc = "search"
    /\ \E n \in 1..MaxLimit, outcome \in ProviderOutcomes :
          LET r == search_reports(n, outcome)
          IN  /\ call' = [num_results |-> n, outcome |-> outcome]
              /\ IF r.exc
                 THEN pc' = "crashed" /\ results' = results
                 ELSE pc' = "process" /\ results' = r.ret
    /\ UNCHANGED <<idx, content, parsed_data, validated_data, heap,
                   processed_data, fs, fetched, log>>

\* The for statement: the next result, or the return.
NextPc(i) == IF i <= Len(results) THEN "fetch" ELSE "done"

\* main: processed_data = searcher.process_search_results(search_results),
\* up to the first iteration of the loop.
StartProcess ==
    /\ pc = "process"
    /\ processed_data' = <<>>
    /\ idx' = 1
    /\ pc' = NextPc(1)
    /\ UNCHANGED <<call, results, content, parsed_data, validated_data, heap, fs,
                   fetched, log>>

AfterFailedFetchBreak(i) == [pc |-> "done", idx |-> i + 1]

AfterFailedFetchRetry(i) ==
    IF \A k \in DOMAIN log : log[k] # <<"fetch", i>>
    THEN [pc |-> "fetch", idx |-> i]
    ELSE [pc |-> NextPc(i + 1), idx |-> i + 1]

\* `if content:` is false: the body is skipped and the for statement goes
\* on with the next result.
AfterFailedFetch(i) == [pc |-> NextPc(i + 1), idx |-> i + 1]

\* content = self.fetch_content(result["link"]); if content: ...
FetchStep ==
    /\ pc = "fetch"
    /\ \E resp \in WebOutcomes :
          LET r == fetch_content(results[idx].link, resp, fs)
          IN  /\ content' = r.ret
              /\ fs' = r.fs
              /\ fetched' = Append(fetched, [resp |-> resp, ret |-> r.ret])
              /\ IF Truthy(r.ret)
                 THEN pc' = "parse" /\ idx' = idx
                 ELSE /\ pc' = AfterFailedFetch(idx).pc
                      /\ idx' = AfterFailedFetch(idx).idx
    /\ log' = Append(log, <<"fetch", idx>>)
    /\ UNCHANGED <<call, results, parsed_data, validated_data, heap,
                   processed_data>>

\* parsed_data = self.parse_esg_data(content)
ParseStep ==
    /\ pc = "parse"
    /\ heap' = Append(heap, parse_esg_data(content))
    /\ parsed_data' = Len(heap) + 1
    /\ pc' = "validate"
    /\ log' = Append(log, <<"parse", idx>>)
    /\ UNCHANGED <<call, results, idx, content, validated_data,
                   processed_data, fs, fetched>>

\* validated_data = self.validate_data(parsed_data)
ValidateStep ==
    /\ pc = "validate"
    /\ LET r == validate_data(heap, parsed_data)
       IN  heap' = r.heap /\ validated_data' = r.ret
    /\ pc' = "merge"
    /\ log' = Append(log, <<"validate", idx>>)
    /\ UNCHANGED <<call, results, idx, content, parsed_data, processed_data,
                   fs, fetched>>

\* validated_data.update({...}); processed_data.append(validated_data)
MergeStep ==
    /\ pc = "merge"
    /\ heap' = [heap EXCEPT ![validated_data] =
                   DictUpdate(@, [source |-> results[idx].link,
                                  title |-> results[idx].title,
                                  snippet |-> results[idx].snippet])]
    /\ processed_data' = Append(processed_data, validated_data)
    /\ idx' = idx + 1
    /\ pc' = NextPc(idx + 1)
    /\ log' = Append(log, <<"merge", idx>>)
    /\ UNCHANGED <<call, results, content, parsed_data, validated_data, fs,
                   fetched>>

Next ==
    \/ Search
    \/ StartProcess
    \/ FetchStep
    \/ ParseStep
    \/ ValidateStep
    \/ MergeStep

Spec == Init /\ [][Next]_vars

\* The records process_search_results returns.
Records == [k \in 1..Len(processed_data) |-> heap[processed_data[k]]]

(***************************************************************************)
(* parse_esg_data and validate_data called on their own: a caller holds    *)
(* some fetched content and runs the two methods on it.                    *)
(***************************************************************************)
TextAlphabet == {"carbon emissions", "1", ",", " ", "x", "MT", "mt"}

TextSpecCarbon ==
    <<"carbon emissions", " skyrocketed to ", "1", ",", "2", "3", "4", " ",
      "metric tons">>
TextSpecNetZero == <<"the company aims to be ", "net-zero by ", "2", "0", "4", "5">>
TextTwoMatches ==
    <<"carbon emissions", "1", " ", "MT", "carbon emissions", "2", " ", "tCO2e">>
TextSecondStart ==
    <<"carbon emissions", "1", "x", "Carbon Emissions", ",", "2", " ",
      "Metric Tons">>
TextUnitBlocks == <<"carbon emissions", "tCO2e", "2", " ", "MT">>
TextShortYear == <<"NET-ZERO BY ", "2", "0", "4", ",", "net-zero by ", "2", "0", "5", "0", "1">>
FixedTexts ==
    {TextSpecCarbon, TextSpecNetZero, TextTwoMatches, TextSecondStart,
     TextUnitBlocks, TextShortYear, JoinSpace(BodyBoth), JoinSpace(BodyNone)}

HtmlPayloads == SeqsUpTo(TextAlphabet, MaxTextLen) \cup FixedTexts
PdfPayloads == SeqsUpTo(TextAlphabet, 1) \cup FixedTexts \cup {PdfName(UrlA).v}

InitExtract ==
    /\ pc = "parse"
    /\ content \in
          {[type |-> "html", content |-> t] : t \in HtmlPayloads}
            \cup {[type |-> "pdf", content |-> t] : t \in PdfPayloads}
    /\ call = PyNone
    /\ results = <<>>
    /\ idx = 0
    /\ parsed_data = 0
    /\ validated_data = 0
    /\ heap = <<>>
    /\ processed_data = <<>>
    /\ fs = EmptyFs
    /\ fetched = <<>>
    /\ log = <<>>

NextExtract ==
    \/ ParseStep
    \/ ValidateStep

ExtractSpec == InitExtract /\ [][NextExtract]_vars

(***************************************************************************)
(* validate_data called on its own, on any small dict.                     *)
(***************************************************************************)
OptionalValue(k, S) == {EmptyDict} \cup {DictSet(EmptyDict, k, v) : v \in S}

ValidateInputs ==
    { DictUpdate(DictUpdate(DictUpdate(DictUpdate(c, z), n), e), o) :
        c \in OptionalValue("carbon_emissions",
                            {PyStr(<<"1", " ", "MT">>), PyStr(<<"1", ",", "2", " ", "mt">>)}),
        z \in OptionalValue("net_zero_target", {PyStr(<<"2", "0", "4", "5">>)}),
        n \in OptionalValue("note", {PdfNote}),
        e \in OptionalValue("error", {PyList(<<>>), PyList(<<PyStr(<<"earlier">>)>>)}),
        o \in OptionalValue("other", {PyNone}) }

InitValidate ==
    /\ pc = "validate"
    /\ heap \in {<<d>> : d \in ValidateInputs}
    /\ parsed_data = 1
    /\ content = PyNone
    /\ call = PyNone
    /\ results = <<>>
    /\ idx = 0
    /\ validated_data = 0
    /\ processed_data = <<>>
    /\ fs = EmptyFs
    /\ fetched = <<>>
    /\ log = <<>>

NextValidate == ValidateStep

ValidateSpec == InitValidate /\ [][NextValidate]_vars

(***************************************************************************)
(* Properties.                                                             *)
(***************************************************************************)
KeptHits == {i \in 1..Len(fetched) : fetched[i].ret # PyNone}
KeptUpTo(i) == Cardinality({j \in KeptHits : j <= i})

\* C1: process_search_results returns one record, a dict of its own, for
\* every hit whose fetch returned content and none for the others, in the
\* order of the hits, each carrying its hit's link, title and snippet as
\* source, title and snippet; every hit is fetched, whatever failed before.
C1_OneRecordPerFetchedHit ==
    pc = "done" =>
      /\ Len(fetched) = Len(results)
      /\ Len(processed_data) = Cardinality(KeptHits)
      /\ \A k, l \in 1..Len(processed_data) :
            k # l => processed_data[k] # processed_data[l]
      /\ \A i \in KeptHits :
            /\ Records[KeptUpTo(i)].source = results[i].link
            /\ Records[KeptUpTo(i)].title = results[i].title
            /\ Records[KeptUpTo(i)].snippet = results[i].snippet

C1_Witness ==
    /\ pc = "done"
    /\ Len(results) = 2
    /\ fetched[1].ret = PyNone
    /\ fetched[2].ret # PyNone
    /\ Len(processed_data) = 1
    /\ Records[1].source = results[2].link

\* C2: when the provider call raises, search_reports lets no exception out
\* and returns the empty list, no fetch is made, and the run ends with no
\* record.
C2_SearchFailureDegrades ==
    (call # PyNone /\ call.outcome.raised) =>
      /\ pc # "crashed"
      /\ results = <<>>
      /\ fetched = <<>>
      /\ pc \in {"process", "done"}
      /\ processed_data = <<>>

C2_Witness ==
    /\ pc = "done"
    /\ call # PyNone
    /\ call.outcome.raised
    /\ processed_data = <<>>

\* C3: search_reports(query, num_results) returns at most num_results hits,
\* however many items the provider's response holds.
C3_AtMostLimit ==
    pc = "process" => Len(results) <= call.num_results

\* What a response declares as its content type, "" when it declares none.
DeclaredType(resp) ==
    IF "Content-Type" \in DOMAIN resp.headers
    THEN resp.headers["Content-Type"].v
    ELSE <<>>
DeclaresPdf(resp) ==
    \E k \in 1..Len(DeclaredType(resp)) : DeclaredType(resp)[k] = "application/pdf"
KindRule(e) ==
    \/ e.ret = PyNone
    \/ /\ e.ret.type \in {"html", "pdf"}
       /\ e.ret.type = "pdf" <=> DeclaresPdf(e.resp)

MsgCarbon == PyStr(<<"Missing carbon emissions data">>)
MsgNetZero == PyStr(<<"Missing net-zero target">>)
ExpectedMessages(d) ==
    (IF "carbon_emissions" \in DOMAIN d THEN <<>> ELSE <<MsgCarbon>>)
      \o (IF "net_zero_target" \in DOMAIN d THEN <<>> ELSE <<MsgNetZero>>)
ListUnder(d, key) == IF key \in DOMAIN d THEN d[key].v ELSE <<>>
\* The list under `key` grew by one message per missing field, carbon
\* emissions first; with no field missing the key is as it was.
AppendsUnder(key, before, after) ==
    IF ExpectedMessages(before) = <<>>
    THEN /\ key \in DOMAIN after <=> key \in DOMAIN before
         /\ ListUnder(after, key) = ListUnder(before, key)
    ELSE /\ key \in DOMAIN after
         /\ after[key] = PyList(ListUnder(before, key) \o ExpectedMessages(before))

Note == PyStr(<<"PDF parsing not implemented yet">>)

\* C6: for pdf content parse_esg_data returns exactly {note: "PDF parsing
\* not implemented yet"} whatever the payload, and validate_data then adds
\* both missing-field messages beside the note.
C6_PdfNoteAndBothErrors ==
    (content # PyNone /\ content.type = "pdf") =>
      /\ pc = "validate" => heap[parsed_data] = [note |-> Note]
      /\ pc = "merge" =>
            heap[validated_data] =
              [note |-> Note, error |-> PyList(<<MsgCarbon, MsgNetZero>>)]

C6_Witness ==
    /\ pc = "merge"
    /\ content.type = "pdf"
    /\ content.content = TextSpecCarbon
    /\ "note" \in DOMAIN heap[validated_data]
    /\ Len(heap[validated_data].error.v) = 2

\* The ways a payload holds the carbon phrase at position i, then f tokens
\* without a digit, then n digits and commas, one space and a unit.
CarbonReadings(text) ==
    { r \in (1..Len(text)) \X (0..Len(text)) \X (1..Len(text)) :
        /\ r[1] + r[2] + r[3] + 2 <= Len(text)
        /\ Lower(text[r[1]]) = "carbon emissions"
        /\ \A k \in (r[1] + 1)..(r[1] + r[2]) :
              text[k] \notin Digits /\ Lower(text[k]) # "tco2e"
        /\ \A k \in (r[1] + r[2] + 1)..(r[1] + r[2] + r[3]) :
              text[k] \in Digits \cup {","}
        /\ text[r[1] + r[2] + r[3] + 1] = " "
        /\ Lower(text[r[1] + r[2] + r[3] + 2]) \in {"metric tons", "mt", "tco2e"} }
ReadingValue(text, r) ==
    PyStr(SubSeq(text, r[1] + r[2] + 1, r[1] + r[2] + r[3] + 2))

\* The same with the unit right after the number or one space after it.
CarbonReadingsAnyGap(text) ==
    { r \in (1..Len(text)) \X (0..Len(text)) \X (1..Len(text)) \X (0..1) :
        /\ r[1] + r[2] + r[3] + r[4] + 1 <= Len(text)
        /\ Lower(text[r[1]]) = "carbon emissions"
        /\ \A k \in (r[1] + 1)..(r[1] + r[2]) :
              text[k] \notin Digits /\ Lower(text[k]) # "tco2e"
        /\ \A k \in (r[1] + r[2] + 1)..(r[1] + r[2] + r[3]) :
              text[k] \in Digits \cup {","}
        /\ r[4] = 1 => text[r[1] + r[2] + r[3] + 1] = " "
        /\ Lower(text[r[1] + r[2] + r[3] + r[4] + 1])
              \in {"metric tons", "mt", "tco2e"} }

\* C7 as stated: for html content parse_esg_data stores carbon_emissions
\* exactly when the payload holds, in any letter case, the carbon phrase,
\* filler without digits, a number of digits and commas and a unit, with
\* nothing said of what stands between the number and the unit.
C7_NumberThenUnit ==
    (pc = "validate" /\ content # PyNone /\ content.type = "html") =>
      ("carbon_emissions" \in DOMAIN heap[parsed_data]
         <=> CarbonReadingsAnyGap(content.content) # {})

\* C7 amended: for html content parse_esg_data stores carbon_emissions
\* exactly when the payload holds, in any letter case, the carbon phrase,
\* filler without digits, a number of digits and commas, exactly one space
\* and a unit; the value is the number, a space and the unit as they stand
\* in the payload, read at the leftmost position of the phrase where that
\* is possible.
C7_CarbonLeftmostMatch ==
    (pc = "validate" /\ content # PyNone /\ content.type = "html") =>
      LET text == content.content
          d == heap[parsed_data]
          R == CarbonReadings(text)
      IN  /\ "carbon_emissions" \in DOMAIN d <=> R # {}
          /\ R # {} =>
               \E r \in R :
                 /\ \A q \in R : r[1] <= q[1]
                 /\ d.carbon_emissions = ReadingValue(text, r)

C7_Witness ==
    /\ pc = "validate"
    /\ content.type = "html"
    /\ content.content = TextTwoMatches
    /\ heap[parsed_data].carbon_emissions = PyStr(<<"1", " ", "MT">>)

StepRank(step) ==
    CASE step = "fetch" -> 1
      [] step = "parse" -> 2
      [] step = "validate" -> 3
      [] step = "merge" -> 4

\* C8: the steps of process_search_results are taken hit after hit: the
\* fetch of a hit follows either the merge of the hit before it or that
\* hit's failed fetch, the steps of one hit come in the order fetch, parse,
\* validate, merge, and no hit is fetched twice; at the end every hit was
\* fetched once.
C8_OneHitAtATime ==
    /\ \A j, k \in 1..Len(log) :
          j < k =>
            \/ log[j][2] < log[k][2]
            \/ log[j][2] = log[k][2] /\ StepRank(log[j][1]) < StepRank(log[k][1])
    /\ \A k \in 2..Len(log) :
          log[k][1] = "fetch" =>
            \/ log[k - 1] = <<"merge", log[k][2] - 1>>
            \/ /\ log[k - 1] = <<"fetch", log[k][2] - 1>>
               /\ fetched[log[k][2] - 1].ret = PyNone
    /\ \A k \in 1..Len(log) :
          log[k][1] # "fetch" => k > 1 /\ StepRank(log[k - 1][1]) = StepRank(log[k][1]) - 1
    /\ pc = "done" =>
          \A i \in 1..Len(results) :
            Cardinality({k \in 1..Len(log) : log[k] = <<"fetch", i>>}) = 1

C8_Witness ==
    /\ pc = "done"
    /\ log = <<<<"fetch", 1>>, <<"fetch", 2>>, <<"parse", 2>>,
               <<"validate", 2>>, <<"merge", 2>>>>

LastPiece(i) == results[i].link.v[Len(results[i].link.v)]
ServedPdf(i) ==
    /\ results[i].link # PyNone
    /\ ~fetched[i].resp.raised
    /\ fetched[i].resp.status_code = 200
    /\ DeclaresPdf(fetched[i].resp)
\* Two hits, i before j, both answered with a PDF, with the same last piece.
SameNamePdfs(i, j) ==
    /\ i < j
    /\ ServedPdf(i)
    /\ ServedPdf(j)
    /\ LastPiece(i) = LastPiece(j)
LaterSameName(j) ==
    {k \in (j + 1)..Len(results) : ServedPdf(k) /\ LastPiece(k) = LastPiece(j)}
RefersTo(rec, path) == \E key \in DOMAIN rec : rec[key] = path

\* C9 as stated: of two PDF hits whose URLs end in the same piece, both
\* fetches return the same local path, after the run the file there holds
\* the body of the later one, and both records refer to that path.
C9_RecordsReferToPath ==
    pc = "done" =>
      \A i, j \in 1..Len(results) :
        (SameNamePdfs(i, j) /\ LaterSameName(j) = {}) =>
          /\ fetched[i].ret # PyNone
          /\ fetched[j].ret # PyNone
          /\ fetched[i].ret.content = fetched[j].ret.content
          /\ fs.files[fetched[j].ret.content] = fetched[j].resp.body
          /\ RefersTo(Records[KeptUpTo(i)], fetched[i].ret.content)
          /\ RefersTo(Records[KeptUpTo(j)], fetched[j].ret.content)

\* C9 amended: of two PDF hits whose URLs end in the same piece, both
\* fetches return the same local path, downloads/<piece>, after the run the
\* file there holds the body of the later one, and the two records hold the
\* note, the error list and their own hit's link, title and snippet, not
\* the path; when the URLs end with "/" the piece is empty, both fetches
\* return None and no file is written.
C9_SameNameOverwrites ==
    pc = "done" =>
      \A i, j \in 1..Len(results) :
        (SameNamePdfs(i, j) /\ LaterSameName(j) = {}) =>
          IF LastPiece(j) = ""
          THEN /\ fetched[i].ret = PyNone
               /\ fetched[j].ret = PyNone
               /\ PyStr(<<"downloads", "">>) \notin DOMAIN fs.files
          ELSE
          /\ fetched[i].ret # PyNone
          /\ fetched[j].ret # PyNone
          /\ fetched[i].ret.type = "pdf"
          /\ fetched[j].ret.type = "pdf"
          /\ fetched[i].ret.content = PyStr(<<"downloads", LastPiece(i)>>)
          /\ fetched[j].ret.content = fetched[i].ret.content
          /\ fs.files[fetched[j].ret.content] = fetched[j].resp.body
          /\ \A k \in {i, j} :
                /\ DOMAIN Records[KeptUpTo(k)] =
                     {"note", "error", "source", "title", "snippet"}
                /\ ~RefersTo(Records[KeptUpTo(k)], fetched[k].ret.content)
                /\ Records[KeptUpTo(k)].source = results[k].link

C9_Witness ==
    /\ pc = "done"
    /\ Len(results) = 2
    /\ results[1].link = UrlA
    /\ results[2].link = UrlB
    /\ SameNamePdfs(1, 2)
    /\ fetched[1].resp.body # fetched[2].resp.body
    /\ fs.files[PyStr(<<"downloads", "r.pdf">>)] = fetched[2].resp.body

\* C10: validate_data returns the dict it was given, makes no other dict,
\* keeps every key that was there with its value, and adds no key but the
\* error list.
C10_ValidateFrame ==
    [][ValidateStep =>
          /\ validated_data' = parsed_data
          /\ Len(heap') = Len(heap)
          /\ DOMAIN heap[parsed_data] \subseteq DOMAIN heap'[parsed_data]
          /\ DOMAIN heap'[parsed_data] \subseteq DOMAIN heap[parsed_data] \cup {"error"}
          /\ \A k \in DOMAIN heap[parsed_data] \ {"error"} :
                heap'[parsed_data][k] = heap[parsed_data][k]]_vars

C10_Witness ==
    /\ pc = "merge"
    /\ validated_data = 1
    /\ DOMAIN heap[1] = {"carbon_emissions", "note", "other", "error"}
    /\ heap[1].error = PyList(<<MsgNetZero>>)
=============================================================================
